---- MODULE Spec2Model ----
(***************************************************************************)
(* Ledger operations of Biz-Manager: FirestoreManager (store.js),          *)
(* FinanceManager (finance.js), CRMManager (crm.js) and POSManager         *)
(* (pos.js), modelled as one client session issuing asynchronous           *)
(* operations against the document store.  Every awaited store call is one *)
(* step.  Money is counted in whole units.                                 *)
(***************************************************************************)
EXTENDS Integers, Sequences, FiniteSets, TLC

\* ------------------------------------------------------------------ bounds
\* number of store, finance and CRM operations a behaviour issues
MaxCalls == 2
\* number of POS operations (cart, checkout, return) a behaviour issues
MaxPosCalls == 3
\* store and finance operations, and POS operations, of a behaviour that mixes both
MaxLedgerCallsAtPos == 1
MaxPosCallsAtLedger == 1
\* number of transaction records a profit-and-loss report is computed over
MaxReportTx == 2

\* ------------------------------------------------------------ input domains
\* documents that exist in the accounts collection
AccountIds == {"a1", "a2"}
\* an id that resolves to no account document
NoAccount == "a9"
\* a field that is absent from the request (undefined is falsy)
Absent == ""
AccountInputs == AccountIds \cup {NoAccount, Absent}
Amounts == {-1, 0, 1}
OpeningBalances == {0, 1}
TxTypes == {"income", "expense", "transfer"}
\* categories and amounts of the records a report is computed over
\* (FinanceManager.categories lists 'Cost of Goods' under expense)
ReportCategories == {"Sales", "Cost of Goods"}
ReportAmounts == {1, 2}
Categories == {"Sales", Absent}
\* client sessions working against the same store
Sessions == {1, 2}
\* documents that exist in the products collection
ProductIds == {"p1", "p2"}
\* an id that resolves to no product document
NoProduct == "p9"
InitialStocks == {0, 1, 2}
QuantityChanges == {-2, -1, 0, 1}
ReorderLevel == 1
\* documents that exist in the customers collection
CustomerIds == {"c1", "c2"}
\* an id that resolves to no customer document
NoCustomer == "c9"
\* credit limit of customer c1; customer c2 has creditLimit 0 (unlimited)
LimitOfC1 == 30
InitialOutstanding == {0, 29}
\* unit prices of the products, in hundredths
Price == [p \in ProductIds |-> IF p = "p1" THEN 25 ELSE 50]
CartQuantities == {1, 2}
\* quantities removeFromCart is called with; 0 stands for the default null
RemoveQuantities == {0, 1}
\* quantities updateQuantity is called with
NewQuantities == {0, 3}
\* POSManager.taxRate
TaxRate == 16
\* POSManager.paymentMethods
PaymentMethods == {"Cash", "Card", "Mobile Money", "Bank Transfer", "Credit"}
\* a payment method the POS does not advertise
OtherMethod == "Cheque"
\* currentCustomer = null
NoneAttached == "none"
\* purchaseData.items of a recordPurchase call: the lines sold, or a value that
\* is not an array (the POS passes the number of cart lines)
NotAnArray == [isArray |-> FALSE, lines |-> <<>>]
PurchaseItems == {NotAnArray,
                  [isArray |-> TRUE,
                   lines |-> <<[productId |-> "p1", price |-> 25, quantity |-> 1]>>]}
PurchaseAmounts == {29}
\* returnItems of a processReturn call
ReturnItems == {<<>>,
                <<[productId |-> "p1", quantity |-> 1]>>,
                <<[productId |-> "p1", quantity |-> 3]>>,
                <<[productId |-> "p2", quantity |-> 1]>>}
CreditAmounts == {-1, 1, 2}
CreditTypes == {"increase", "decrease", "payment"}

VARIABLES
    accounts,       \* accounts collection: id -> balance
    opening,        \* balance each account was created with
    transactions,   \* transactions collection, in creation order
    audit_logs,     \* audit_logs collection, in creation order
    finAccounts,    \* FinanceManager.accounts: cached id -> balance
    finTransactions,\* FinanceManager.transactions: the records last loaded
    rt,             \* the running recordTransaction call
    products,       \* products collection: id -> [stock, reorderLevel, lowStock]
    initialStock,   \* stock each product was created with
    succeededChange,\* per product, sum of the quantityChanges of the updateStock calls that returned
    inventory_logs, \* inventory_logs collection, in creation order
    us,             \* per session, the running updateStock call
    customers,      \* customers collection: id -> customer document
    credit_transactions, \* credit_transactions collection, in creation order
    cc,             \* per session, the running updateCustomerCredit call
    cart,           \* POSManager.cart
    currentCustomer,\* POSManager.currentCustomer (an id, or NoneAttached)
    sales,          \* sales collection, in creation order
    returns,        \* returns collection, in creation order
    ck,             \* the running processCheckout call
    rn,             \* the running processReturn call
    rp,             \* the running recordPurchase call
    snapshot,       \* accounts and number of transactions at the last call entry
    result,         \* outcome of the last finished operation
    budget          \* operations the session may still issue: [direct, pos]

ledgerVars == <<accounts, opening, transactions, audit_logs, finAccounts,
                finTransactions, rt,
                snapshot>>
stockVars == <<products, initialStock, succeededChange, inventory_logs, us>>
creditVars == <<customers, credit_transactions, cc, rp>>
posVars == <<cart, currentCustomer, sales, returns, ck, rn>>

vars == <<ledgerVars, stockVars, creditVars, posVars, result, budget>>

\* ---------------------------------------------------------------- helpers
Ok(op, value) == [op |-> op, status |-> "ok", error |-> "", value |-> value]
Err(op, msg) == [op |-> op, status |-> "error", error |-> msg, value |-> 0]

NoData == [type |-> Absent, amount |-> 0, accountId |-> Absent,
           toAccountId |-> Absent, category |-> Absent]

TransactionInputs ==
    { d \in [type : TxTypes \cup {Absent}, amount : Amounts,
             accountId : AccountInputs, toAccountId : AccountInputs,
             category : Categories] :
        d.type # "transfer" => d.toAccountId = Absent }

\* required.forEach(field => { if (!transactionData[field]) throw ... })
MissingRequired(d) ==
    \/ d.type = Absent
    \/ d.amount = 0
    \/ d.accountId = Absent
    \/ d.category = Absent

\* variant: a transfer debits the destination as well
BalanceChange_DebitBoth(type, phase, amount) ==
    IF type = "income" THEN amount ELSE -amount

\* the signed change recordTransaction applies in its phase-th balance update
BalanceChange(type, phase, amount) ==
    IF type = "income" THEN amount
    ELSE IF type = "expense" THEN -amount
    ELSE IF phase = 1 THEN -amount
    ELSE amount

\* the account the phase-th balance update of a request addresses
BalanceTarget(d, phase) ==
    IF phase = 1 THEN d.accountId ELSE d.toAccountId

\* variant: the transaction record is created without the balance updates
AfterValidation_RecordFirst(d) == "add"

\* where recordTransaction continues once the request passed validation
AfterValidation(d) ==
    IF d.type \in {"income", "expense", "transfer"} THEN "get" ELSE "add"

\* variant: a transfer never looks up its destination account
AfterUpdate_SkipDestination(d, phase) == "add"

\* where recordTransaction continues after a balance update
AfterUpdate(d, phase) ==
    IF d.type = "transfer" /\ phase = 1 THEN "get" ELSE "add"

\* parseFloat((amount * (rate / 100)).toFixed(2)), amounts in hundredths:
\* the nearest hundredth (amount * 16 / 100 never lies halfway)
calculateTax(amount, rate) == (2 * amount * rate + 100) \div 200

RECURSIVE SumTotal(_), SumTax(_)
SumTotal(lines) ==
    IF lines = <<>> THEN 0 ELSE lines[1].total + SumTotal(Tail(lines))
SumTax(lines) ==
    IF lines = <<>> THEN 0 ELSE lines[1].taxAmount + SumTax(Tail(lines))

\* updateCartSummary: subtotal, tax and total of the cart (discount is 0)
updateCartSummary(lines) ==
    [subtotal |-> SumTotal(lines), tax |-> SumTax(lines),
     total |-> SumTotal(lines) + SumTax(lines)]

\* the cart after addToCart found the product and passed the stock check
CartWith(lines, p, price, quantity) ==
    IF \E i \in 1..Len(lines) : lines[i].productId = p
    THEN [i \in 1..Len(lines) |->
            IF lines[i].productId = p
            THEN [lines[i] EXCEPT !.quantity = @ + quantity,
                                  !.total = (lines[i].quantity + quantity) * lines[i].price]
            ELSE lines[i]]
    ELSE Append(lines, [productId |-> p, price |-> price, quantity |-> quantity,
                        total |-> price * quantity,
                        taxAmount |-> calculateTax(price * quantity, TaxRate)])

\* the cart after removeFromCart(productId, quantity)
CartWithout(lines, p, quantity) ==
    IF \E i \in 1..Len(lines) : lines[i].productId = p
    THEN LET i == CHOOSE k \in 1..Len(lines) : lines[k].productId = p IN
         IF quantity # 0 /\ lines[i].quantity > quantity
         THEN [lines EXCEPT
                 ![i].quantity = @ - quantity,
                 ![i].total = (lines[i].quantity - quantity) * lines[i].price,
                 ![i].taxAmount =
                     calculateTax((lines[i].quantity - quantity) * lines[i].price,
                                  TaxRate)]
         ELSE SelectSeq(lines, LAMBDA l : l.productId # p)
    ELSE lines

\* the cart after updateQuantity(productId, quantity)
CartWithQuantity(lines, p, quantity) ==
    IF \E i \in 1..Len(lines) : lines[i].productId = p
    THEN LET i == CHOOSE k \in 1..Len(lines) : lines[k].productId = p IN
         IF quantity <= 0
         THEN CartWithout(lines, p, 0)
         ELSE [lines EXCEPT
                 ![i].quantity = quantity,
                 ![i].total = lines[i].price * quantity,
                 ![i].taxAmount = calculateTax(lines[i].price * quantity, TaxRate)]
    ELSE lines

\* ------------------------------------------------------------------- Init
IdleRt == [pc |-> "idle", caller |-> "recordTransaction", data |-> NoData,
           phase |-> 1, account |-> 0]

IdleUs == [pc |-> "idle", productId |-> Absent, quantityChange |-> 0,
           previousStock |-> 0, newStock |-> 0, raced |-> FALSE]

IdleCc == [pc |-> "idle", caller |-> "updateCustomerCredit",
           customerId |-> Absent, amount |-> 0, type |-> Absent,
           previousBalance |-> 0, newBalance |-> 0, error |-> ""]

IdleRp == [pc |-> "idle", customerId |-> Absent, amount |-> 0,
           customer |-> Absent, saleId |-> 0]

IdleRn == [pc |-> "idle", saleId |-> 0, items |-> <<>>, refundAmount |-> 0,
           entry |-> [ntx |-> 0, nreturns |-> 0,
                      stock |-> [p \in ProductIds |-> 0]]]

\* addProduct: lowStock: productData.stock <= reorderLevel
Product(p, stock) ==
    [stock |-> stock, price |-> Price[p], reorderLevel |-> ReorderLevel,
     lowStock |-> (stock <= ReorderLevel)]

\* createCustomer sets creditUsed to 0; updateCustomerCredit and
\* updateCustomerPurchaseStats later set it to the outstanding balance
Customer(outstanding, limit, used) ==
    [outstandingBalance |-> outstanding, creditLimit |-> limit,
     creditUsed |-> used, totalPurchases |-> 0, totalSpent |-> 0]

\* the ledger collections, with the opening balances given
LedgerStart(open) ==
    /\ opening = open
    /\ accounts = open
    /\ transactions = <<>>
    /\ audit_logs = <<>>
    /\ finAccounts = [a \in {} |-> 0]
    /\ finTransactions = <<>>
    /\ rt = IdleRt
    /\ snapshot = [accounts |-> open, ntx |-> 0]

\* the stock collections, with the initial stocks given
StockStart(stock) ==
    /\ initialStock = stock
    /\ products = [p \in ProductIds |-> Product(p, stock[p])]
    /\ succeededChange = [p \in ProductIds |-> 0]
    /\ inventory_logs = <<>>
    /\ us = [s \in Sessions |-> IdleUs]

\* the customer collections, c1 owing the amount given
CreditStart(outstanding, used) ==
    /\ customers = [c \in CustomerIds |->
                      IF c = "c1" THEN Customer(outstanding, LimitOfC1, used)
                      ELSE Customer(0, 0, 0)]
    /\ credit_transactions = <<>>
    /\ cc = [s \in Sessions |-> IdleCc]
    /\ rp = IdleRp

\* what a processCheckout call finds in the store when it is entered
CheckoutEntry ==
    [ntx |-> Len(transactions), nsales |-> Len(sales), customers |-> customers,
     stock |-> [p \in ProductIds |-> products[p].stock], cart |-> cart]

IdleCk == [pc |-> "idle", method |-> Absent, total |-> 0,
           entry |-> [ntx |-> 0, nsales |-> 0,
                      customers |-> [c \in CustomerIds |-> Customer(0, 0, 0)],
                      stock |-> [p \in ProductIds |-> 0], cart |-> <<>>]]

\* POSManager with the cart and the customer given (the constructor leaves the
\* cart empty and attaches none); no sale recorded yet
PosStart(lines, customer) ==
    /\ cart = lines
    /\ currentCustomer = customer
    /\ sales = <<>>
    /\ returns = <<>>
    /\ ck = IdleCk
    /\ rn = IdleRn

InitLedger ==
    /\ \E open \in [AccountIds -> OpeningBalances] : LedgerStart(open)
    /\ StockStart([p \in ProductIds |-> 2])
    /\ CreditStart(0, 0)
    /\ result = Ok("init", 0)
    /\ PosStart(<<>>, NoneAttached)
    /\ budget = [direct |-> MaxCalls, pos |-> 0]

InitStock ==
    /\ LedgerStart([a \in AccountIds |-> 0])
    /\ \E stock \in [ProductIds -> InitialStocks] : StockStart(stock)
    /\ CreditStart(0, 0)
    /\ result = Ok("init", 0)
    /\ PosStart(<<>>, NoneAttached)
    /\ budget = [direct |-> MaxCalls, pos |-> 0]

InitPos ==
    /\ LedgerStart([a \in AccountIds |-> 2])
    /\ StockStart([p \in ProductIds |-> 2])
    /\ \E o \in InitialOutstanding, used \in InitialOutstanding :
          /\ used \in {0, o}
          /\ CreditStart(o, used)
    /\ PosStart(<<>>, NoneAttached)
    /\ result = Ok("init", 0)
    /\ budget = [direct |-> 0, pos |-> MaxPosCalls]

\* a session at the terminal with customer c1 attached and one p1 in the cart
InitAll ==
    /\ LedgerStart([a \in AccountIds |-> 2])
    /\ StockStart([p \in ProductIds |-> 2])
    /\ CreditStart(0, 0)
    /\ PosStart(CartWith(<<>>, "p1", Price["p1"], 1), "c1")
    /\ result = Ok("init", 0)
    /\ budget = [direct |-> MaxLedgerCallsAtPos, pos |-> MaxPosCallsAtLedger]

InitReturn ==
    /\ LedgerStart([a \in AccountIds |-> 2])
    /\ StockStart([p \in ProductIds |-> 2])
    /\ CreditStart(0, 0)
    /\ PosStart(<<>>, NoneAttached)
    /\ result = Ok("init", 0)
    /\ budget = [direct |-> MaxCalls, pos |-> MaxPosCalls]

InitCredit ==
    /\ LedgerStart([a \in AccountIds |-> 0])
    /\ StockStart([p \in ProductIds |-> 2])
    /\ \E o \in InitialOutstanding, used \in InitialOutstanding :
          /\ used \in {0, o}
          /\ CreditStart(o, used)
    /\ result = Ok("init", 0)
    /\ PosStart(<<>>, NoneAttached)
    /\ budget = [direct |-> MaxCalls, pos |-> 0]

\* ------------------------------------------------- FirestoreManager (store)
\* entry of recordTransaction: validation up to the first await
recordTransactionEnter(caller, d) ==
    /\ snapshot' = [accounts |-> accounts, ntx |-> Len(transactions)]
    /\ budget' = [budget EXCEPT !.direct = @ - 1]
    /\ IF MissingRequired(d)
       THEN /\ result' = Err(caller, "Missing required field")
            /\ rt' = IdleRt
       ELSE IF d.type = "transfer" /\ d.toAccountId = Absent
       THEN /\ result' = Err(caller, "Transfer requires toAccountId")
            /\ rt' = IdleRt
       ELSE /\ result' = result
            /\ rt' = [pc |-> AfterValidation(d), caller |-> caller, data |-> d,
                      phase |-> 1, account |-> 0]
    /\ UNCHANGED <<accounts, opening, transactions, audit_logs, finAccounts, finTransactions,
                   stockVars, creditVars, posVars>>

RecordTransaction ==
    /\ rt.pc = "idle" /\ ck.pc = "idle"
    /\ budget.direct > 0
    /\ \E d \in TransactionInputs : recordTransactionEnter("recordTransaction", d)

\* updateAccountBalance: const account = await this.getDocument('accounts', accountId)
UpdateAccountBalanceGet ==
    /\ rt.pc = "get"
    /\ LET target == BalanceTarget(rt.data, rt.phase) IN
       IF target \in DOMAIN accounts
       THEN /\ rt' = [rt EXCEPT !.pc = "upd", !.account = accounts[target]]
            /\ result' = result
       ELSE /\ rt' = [rt EXCEPT !.pc = "idle"]
            /\ result' = Err(rt.caller, "Account not found")
    /\ UNCHANGED <<accounts, opening, transactions, audit_logs, finAccounts, finTransactions,
                   snapshot, budget, stockVars, creditVars, posVars>>

\* updateAccountBalance: await this.updateDocument('accounts', accountId, {balance: newBalance})
UpdateAccountBalanceWrite ==
    /\ rt.pc = "upd"
    /\ LET target == BalanceTarget(rt.data, rt.phase)
           newBalance == rt.account + BalanceChange(rt.data.type, rt.phase, rt.data.amount)
       IN accounts' = [accounts EXCEPT ![target] = newBalance]
    /\ rt' = [rt EXCEPT !.pc = AfterUpdate(rt.data, rt.phase), !.phase = 2]
    /\ UNCHANGED <<opening, transactions, audit_logs, finAccounts, finTransactions, snapshot,
                   result, budget, stockVars, creditVars, posVars>>

\* variant: the record stores the magnitude of the amount
NewTransaction_Magnitude(d, id) ==
    [id |-> id, type |-> d.type,
     amount |-> IF d.amount < 0 THEN -d.amount ELSE d.amount,
     accountId |-> d.accountId, toAccountId |-> d.toAccountId,
     category |-> d.category, status |-> "completed"]

\* the record addDocument('transactions', transaction) creates
NewTransaction(d, id) ==
    [id |-> id, type |-> d.type, amount |-> d.amount, accountId |-> d.accountId,
     toAccountId |-> d.toAccountId, category |-> d.category,
     status |-> "completed"]

\* const result = await this.addDocument('transactions', transaction)
AddTransaction ==
    /\ rt.pc = "add"
    /\ transactions' = Append(transactions,
                              NewTransaction(rt.data, Len(transactions) + 1))
    /\ rt' = [rt EXCEPT !.pc = "audit"]
    /\ UNCHANGED <<accounts, opening, audit_logs, finAccounts, finTransactions, snapshot,
                   result, budget, stockVars, creditVars, posVars>>

\* await this.auditLog('transaction', result.id, 'create', transactionData); return result
AuditLog ==
    /\ rt.pc = "audit"
    /\ audit_logs' = Append(audit_logs,
                            [entity |-> "transaction",
                             entityId |-> Len(transactions),
                             action |-> "create"])
    /\ rt' = [rt EXCEPT !.pc = "idle"]
    /\ result' = Ok(rt.caller, Len(transactions))
    /\ UNCHANGED <<accounts, opening, transactions, finAccounts, finTransactions, snapshot, budget,
                   stockVars, creditVars, posVars>>

\* const result = await this.addDocument('transactions', transaction) when the
\* store rejects the write: addDocument rethrows and recordTransaction has no
\* catch
AddTransactionFails ==
    /\ rt.pc = "add"
    /\ rt' = [rt EXCEPT !.pc = "idle"]
    /\ result' = Err(rt.caller, "Error adding to transactions")
    /\ UNCHANGED <<accounts, opening, transactions, audit_logs, finAccounts,
                   finTransactions, snapshot, budget, stockVars, creditVars,
                   posVars>>

\* await this.auditLog(...) when addDocument('audit_logs', ...) rejects:
\* auditLog and recordTransaction have no catch, so the rejection is the
\* outcome of recordTransaction
AuditLogFails ==
    /\ rt.pc = "audit"
    /\ rt' = [rt EXCEPT !.pc = "idle"]
    /\ result' = Err(rt.caller, "Error adding to audit_logs")
    /\ UNCHANGED <<accounts, opening, transactions, audit_logs, finAccounts, finTransactions,
                   snapshot, budget, stockVars, creditVars, posVars>>

\* ------------------------------------------------ FinanceManager (finance)
\* this.accounts = await storeManager.getDocuments('accounts')
LoadAccounts ==
    /\ rt.pc = "idle" /\ ck.pc = "idle"
    /\ finAccounts # accounts
    /\ finAccounts' = accounts
    /\ UNCHANGED <<accounts, opening, transactions, audit_logs, finTransactions,
                   rt, snapshot,
                   result, budget, stockVars, creditVars, posVars>>

\* the loop of getProfitAndLoss over the loaded transactions
RECURSIVE ProfitAndLoss(_)
ProfitAndLoss(txs) ==
    IF txs = <<>>
    THEN [revenue |-> 0, cogs |-> 0, operatingExpenses |-> 0]
    ELSE LET t == txs[1]
             pnl == ProfitAndLoss(Tail(txs))
         IN IF t.type = "income"
            THEN [pnl EXCEPT !.revenue = @ + t.amount,
                             !.cogs = IF t.category = "Cost of Goods"
                                      THEN @ + t.amount ELSE @]
            ELSE IF t.type = "expense"
            THEN [pnl EXCEPT !.operatingExpenses = @ + t.amount]
            ELSE pnl

\* const transactions = await this.loadTransactions(startDate, endDate); the
\* sums; pnl.grossProfit and pnl.netProfit
GetProfitAndLoss ==
    /\ rt.pc = "idle" /\ ck.pc = "idle"
    /\ finTransactions' = transactions
    /\ LET pnl == ProfitAndLoss(transactions) IN
       result' = Ok("getProfitAndLoss",
                    [revenue |-> pnl.revenue, cogs |-> pnl.cogs,
                     operatingExpenses |-> pnl.operatingExpenses,
                     grossProfit |-> pnl.revenue - pnl.cogs,
                     netProfit |-> pnl.revenue - pnl.cogs - pnl.operatingExpenses])
    /\ UNCHANGED <<accounts, opening, transactions, audit_logs, finAccounts, rt,
                   snapshot, budget, stockVars, creditVars, posVars>>

TransferFunds ==
    /\ rt.pc = "idle" /\ ck.pc = "idle"
    /\ budget.direct > 0
    /\ \E from \in AccountIds \cup {NoAccount}, to \in AccountIds \cup {NoAccount},
          amount \in Amounts :
         LET d == [type |-> "transfer", amount |-> amount, accountId |-> from,
                   toAccountId |-> to, category |-> "Account Transfer"]
             reject(msg) ==
                /\ result' = Err("transferFunds", msg)
                /\ rt' = IdleRt
                /\ snapshot' = [accounts |-> accounts, ntx |-> Len(transactions)]
                /\ budget' = [budget EXCEPT !.direct = @ - 1]
                /\ UNCHANGED <<accounts, opening, transactions, audit_logs,
                               finAccounts, finTransactions, stockVars, creditVars, posVars>>
         IN IF amount <= 0
            THEN reject("Transfer amount must be positive")
            ELSE IF from \notin DOMAIN finAccounts \/ to \notin DOMAIN finAccounts
            THEN reject("One or both accounts not found")
            ELSE IF finAccounts[from] < amount
            THEN reject("Insufficient funds for transfer")
            ELSE recordTransactionEnter("transferFunds", d)

\* ----------------------------------------------------- updateStock (store)
\* a session calls updateStock(productId, quantityChange)
UpdateStock(s) ==
    /\ us[s].pc = "idle"
    /\ budget.direct > 0
    /\ \E p \in ProductIds \cup {NoProduct}, q \in QuantityChanges :
         us' = [us EXCEPT ![s] = [IdleUs EXCEPT !.pc = "get", !.productId = p,
                                                 !.quantityChange = q]]
    /\ budget' = [budget EXCEPT !.direct = @ - 1]
    /\ UNCHANGED <<ledgerVars, creditVars, posVars, products, initialStock,
                   succeededChange, inventory_logs, result>>

\* variant: the stock check is off by one
InsufficientStock_OffByOne(newStock) == newStock < -1

\* newStock < 0 : throw new Error('Insufficient stock')
InsufficientStock(newStock) == newStock < 0

\* const product = await this.getDocument('products', productId); the checks
UpdateStockGet(s) ==
    /\ us[s].pc = "get"
    /\ LET f == us[s] IN
       IF f.productId \notin DOMAIN products
       THEN /\ us' = [us EXCEPT ![s].pc = "idle"]
            /\ result' = Err("updateStock", "Product not found")
       ELSE LET newStock == products[f.productId].stock + f.quantityChange IN
            IF InsufficientStock(newStock)
            THEN /\ us' = [us EXCEPT ![s].pc = "idle"]
                 /\ result' = Err("updateStock", "Insufficient stock")
            ELSE /\ us' = [us EXCEPT ![s].pc = "upd",
                                     ![s].previousStock = products[f.productId].stock,
                                     ![s].newStock = newStock]
                 /\ result' = result
    /\ UNCHANGED <<ledgerVars, creditVars, posVars, products, initialStock,
                   succeededChange, inventory_logs, budget>>

\* the call frames once session s has written the stock; raced marks the two
\* calls of which one writes while the other, on the same product, has read
\* the stock and not yet written
AfterStockWrite(s) ==
    LET pending(t) == /\ t # s
                      /\ us[t].pc = "upd"
                      /\ us[t].productId = us[s].productId
    IN [t \in Sessions |->
          IF t = s
          THEN [us[s] EXCEPT !.pc = "log",
                             !.raced = @ \/ \E o \in Sessions : pending(o)]
          ELSE IF pending(t) THEN [us[t] EXCEPT !.raced = TRUE]
          ELSE us[t]]

\* variant: the write adds the change to the stock stored at the time of the
\* write (an atomic increment)
UpdateStockWrite_Increment(s) ==
    /\ us[s].pc = "upd"
    /\ LET f == us[s]
           stock == products[f.productId].stock + f.quantityChange IN
       products' = [products EXCEPT
                      ![f.productId].stock = stock,
                      ![f.productId].lowStock =
                          (stock <= products[f.productId].reorderLevel)]
    /\ us' = AfterStockWrite(s)
    /\ UNCHANGED <<ledgerVars, creditVars, posVars, initialStock, succeededChange,
                   inventory_logs, result, budget>>

\* await this.updateDocument('products', productId, {stock, lowStock})
UpdateStockWrite(s) ==
    /\ us[s].pc = "upd"
    /\ LET f == us[s] IN
       products' = [products EXCEPT
                      ![f.productId].stock = f.newStock,
                      ![f.productId].lowStock =
                          (f.newStock <= products[f.productId].reorderLevel)]
    /\ us' = AfterStockWrite(s)
    /\ UNCHANGED <<ledgerVars, creditVars, posVars, initialStock, succeededChange,
                   inventory_logs, result, budget>>

\* variant: previousStock is taken after the product was updated
InventoryLogEntry_StaleRead(f) ==
    [productId |-> f.productId, quantityChange |-> f.quantityChange,
     previousStock |-> f.newStock, newStock |-> f.newStock]

\* the entry addDocument('inventory_logs', ...) creates
InventoryLogEntry(f) ==
    [productId |-> f.productId, quantityChange |-> f.quantityChange,
     previousStock |-> f.previousStock, newStock |-> f.newStock]

\* await this.addDocument('inventory_logs', ...); return newStock
UpdateStockLog(s) ==
    /\ us[s].pc = "log"
    /\ inventory_logs' = Append(inventory_logs, InventoryLogEntry(us[s]))
    /\ succeededChange' = [succeededChange EXCEPT
                             ![us[s].productId] = @ + us[s].quantityChange]
    /\ us' = [us EXCEPT ![s].pc = "idle"]
    /\ result' = Ok("updateStock", us[s].newStock)
    /\ UNCHANGED <<ledgerVars, creditVars, posVars, products, initialStock, budget>>

\* --------------------------------------------- updateCustomerCredit (crm)
\* the outstanding balance updateCustomerCredit computes
NewBalance(outstanding, amount, type) ==
    IF type = "increase" THEN outstanding + amount
    ELSE IF type \in {"decrease", "payment"}
    THEN (IF outstanding - amount < 0 THEN 0 ELSE outstanding - amount)
    ELSE outstanding

\* newBalance > customer.creditLimit && customer.creditLimit > 0
CreditLimitExceeded(newBalance, creditLimit) ==
    newBalance > creditLimit /\ creditLimit > 0

updateCustomerCreditEnter(s, caller, c, amount, type) ==
    cc' = [cc EXCEPT ![s] = [IdleCc EXCEPT !.pc = "get", !.caller = caller,
                                           !.customerId = c, !.amount = amount,
                                           !.type = type]]

\* a session calls updateCustomerCredit(customerId, amount, type)
UpdateCustomerCredit(s) ==
    /\ cc[s].pc = "idle"
    /\ budget.direct > 0
    /\ \E c \in CustomerIds \cup {NoCustomer}, amount \in CreditAmounts,
          type \in CreditTypes :
         updateCustomerCreditEnter(s, "updateCustomerCredit", c, amount, type)
    /\ budget' = [budget EXCEPT !.direct = @ - 1]
    /\ UNCHANGED <<ledgerVars, stockVars, posVars, customers, credit_transactions, rp, result>>

\* how a finished updateCustomerCredit call hands its outcome over: a call of
\* the session itself ends, a call made by processPayment resumes its caller
CreditThrow(s, msg) ==
    IF cc[s].caller = "updateCustomerCredit"
    THEN /\ cc' = [cc EXCEPT ![s].pc = "idle", ![s].error = msg]
         /\ result' = Err("updateCustomerCredit", msg)
    ELSE /\ cc' = [cc EXCEPT ![s].pc = "threw", ![s].error = msg]
         /\ result' = result

\* const customer = await storeManager.getDocument('customers', customerId); the checks
UpdateCustomerCreditGet(s) ==
    /\ cc[s].pc = "get"
    /\ LET f == cc[s] IN
       IF f.customerId \notin DOMAIN customers
       THEN CreditThrow(s, "Customer not found")
       ELSE LET cust == customers[f.customerId]
                newBalance == NewBalance(cust.outstandingBalance, f.amount, f.type)
            IN IF CreditLimitExceeded(newBalance, cust.creditLimit)
               THEN CreditThrow(s, "Credit limit exceeded")
               ELSE /\ cc' = [cc EXCEPT ![s].pc = "upd",
                                        ![s].previousBalance = cust.outstandingBalance,
                                        ![s].newBalance = newBalance]
                    /\ result' = result
    /\ UNCHANGED <<ledgerVars, stockVars, posVars, customers, credit_transactions, rp, budget>>

\* await storeManager.updateDocument('customers', customerId, {outstandingBalance, creditUsed})
UpdateCustomerCreditWrite(s) ==
    /\ cc[s].pc = "upd"
    /\ LET f == cc[s] IN
       customers' = [customers EXCEPT
                       ![f.customerId].outstandingBalance = f.newBalance,
                       ![f.customerId].creditUsed = f.newBalance]
    /\ cc' = [cc EXCEPT ![s].pc = "log"]
    /\ UNCHANGED <<ledgerVars, stockVars, posVars, credit_transactions, rp, result, budget>>

\* await storeManager.addDocument('credit_transactions', ...); return newBalance
UpdateCustomerCreditLog(s) ==
    /\ cc[s].pc = "log"
    /\ LET f == cc[s] IN
       credit_transactions' =
          Append(credit_transactions,
                 [customerId |-> f.customerId, amount |-> f.amount,
                  type |-> f.type, previousBalance |-> f.previousBalance,
                  newBalance |-> f.newBalance])
    /\ IF cc[s].caller = "updateCustomerCredit"
       THEN /\ cc' = [cc EXCEPT ![s].pc = "idle"]
            /\ result' = Ok("updateCustomerCredit", cc[s].newBalance)
       ELSE /\ cc' = [cc EXCEPT ![s].pc = "returned"]
            /\ result' = result
    /\ UNCHANGED <<ledgerVars, stockVars, posVars, customers, rp, budget>>

\* -------------------------------------------------------- POSManager (pos)
\* the session runs no operation
SessionIdle ==
    /\ rt.pc = "idle"
    /\ ck.pc = "idle"
    /\ rn.pc = "idle"
    /\ rp.pc = "idle"
    /\ us[1].pc = "idle"
    /\ cc[1].pc = "idle"

SetCustomer ==
    /\ SessionIdle
    /\ budget.pos > 0
    /\ \E c \in CustomerIds \cup {NoneAttached} :
         /\ c # currentCustomer
         /\ currentCustomer' = c
    /\ budget' = [budget EXCEPT !.pos = @ - 1]
    /\ UNCHANGED <<ledgerVars, stockVars, creditVars, cart, sales, returns, rn, ck,
                   result>>

addToCart(free) ==
    /\ free
    /\ budget.pos > 0
    /\ \E p \in ProductIds \cup {NoProduct}, quantity \in CartQuantities :
         IF p \notin DOMAIN products
         THEN /\ result' = Err("addToCart", "Product not found")
              /\ cart' = cart
         ELSE IF products[p].stock < quantity
         THEN /\ result' = Err("addToCart", "Insufficient stock")
              /\ cart' = cart
         ELSE /\ result' = Ok("addToCart", 0)
              /\ cart' = CartWith(cart, p, products[p].price, quantity)
    /\ budget' = [budget EXCEPT !.pos = @ - 1]
    /\ UNCHANGED <<ledgerVars, stockVars, creditVars, currentCustomer, sales,
                   returns, rn, ck>>

removeFromCart(free) ==
    /\ free
    /\ budget.pos > 0
    /\ cart # <<>>
    /\ \E p \in ProductIds, quantity \in RemoveQuantities :
         cart' = CartWithout(cart, p, quantity)
    /\ result' = Ok("removeFromCart", 0)
    /\ budget' = [budget EXCEPT !.pos = @ - 1]
    /\ UNCHANGED <<ledgerVars, stockVars, creditVars, currentCustomer, sales,
                   returns, rn, ck>>

updateQuantity(free) ==
    /\ free
    /\ budget.pos > 0
    /\ cart # <<>>
    /\ \E p \in ProductIds, quantity \in NewQuantities :
         cart' = CartWithQuantity(cart, p, quantity)
    /\ result' = Ok("updateQuantity", 0)
    /\ budget' = [budget EXCEPT !.pos = @ - 1]
    /\ UNCHANGED <<ledgerVars, stockVars, creditVars, currentCustomer, sales,
                   returns, rn, ck>>

\* the cart operations called between two workflows of the session
AddToCart == addToCart(SessionIdle)

RemoveFromCart == removeFromCart(SessionIdle)

UpdateQuantity == updateQuantity(SessionIdle)

\* processCheckout is suspended on a store call: the customer lookup of the
\* credit check, the nested updateCustomerCredit, or the account lookup of
\* getPaymentAccount; the session's thread is free for another UI handler
CheckoutSuspended ==
    /\ ck.pc \in {"creditcheck", "credit", "record"}
    /\ ck.pc = "credit" => cc[1].pc \notin {"returned", "threw"}
    /\ rt.pc = "idle"
    /\ rn.pc = "idle"
    /\ rp.pc = "idle"
    /\ us[1].pc = "idle"

\* the cart operations called while processCheckout is suspended
AddToCartSuspended == addToCart(CheckoutSuspended)

RemoveFromCartSuspended == removeFromCart(CheckoutSuspended)

UpdateQuantitySuspended == updateQuantity(CheckoutSuspended)

\* variant: the credit check ignores the credit already used
CreditCheckFails_IgnoresUsed(total, customer) ==
    total > customer.creditLimit

\* summary.total > availableCredit
CreditCheckFails(total, customer) ==
    total > customer.creditLimit - customer.creditUsed

\* processCheckout up to its first await
ProcessCheckout ==
    /\ SessionIdle
    /\ budget.pos > 0
    /\ budget' = [budget EXCEPT !.pos = @ - 1]
    /\ \E method \in PaymentMethods \cup {OtherMethod} :
         IF Len(cart) = 0
         THEN /\ result' = Err("processCheckout", "Cart is empty")
              /\ ck' = IdleCk
         ELSE /\ result' = result
              /\ ck' = [pc |-> IF method = "Credit" /\ currentCustomer # NoneAttached
                               THEN "creditcheck" ELSE "payment",
                        method |-> method,
                        total |-> updateCartSummary(cart).total,
                        entry |-> CheckoutEntry]
    /\ UNCHANGED <<ledgerVars, stockVars, creditVars, cart, currentCustomer,
                   sales, returns, rn>>

\* const customer = await storeManager.getDocument('customers', ...); the credit check
CheckoutCreditCheck ==
    /\ ck.pc = "creditcheck"
    /\ IF CreditCheckFails(ck.total, customers[currentCustomer])
       THEN /\ result' = Err("processCheckout", "Credit limit exceeded")
            /\ ck' = [ck EXCEPT !.pc = "idle"]
       ELSE /\ result' = result
            /\ ck' = [ck EXCEPT !.pc = "payment"]
    /\ UNCHANGED <<ledgerVars, stockVars, creditVars, cart, currentCustomer,
                   sales, returns, rn, budget>>

\* processPayment: the switch over paymentData.method
CheckoutPayment ==
    /\ ck.pc = "payment"
    /\ IF ck.method \in {"Cash", "Card", "Mobile Money"}
       THEN /\ ck' = [ck EXCEPT !.pc = "record"]
            /\ UNCHANGED <<result, cc>>
       ELSE IF ck.method = "Credit"
       THEN IF currentCustomer = NoneAttached
            THEN /\ result' = Err("processCheckout",
                                  "Customer required for credit payment")
                 /\ ck' = [ck EXCEPT !.pc = "idle"]
                 /\ cc' = cc
            ELSE /\ updateCustomerCreditEnter(1, "processPayment",
                                              currentCustomer, ck.total, "increase")
                 /\ ck' = [ck EXCEPT !.pc = "credit"]
                 /\ result' = result
       ELSE /\ result' = Err("processCheckout", "Unsupported payment method")
            /\ ck' = [ck EXCEPT !.pc = "idle"]
            /\ cc' = cc
    /\ UNCHANGED <<ledgerVars, stockVars, customers, credit_transactions, rp, cart,
                   currentCustomer, sales, returns, rn, budget>>

\* processPayment resumes after await crmManager.updateCustomerCredit(...)
CheckoutCreditReturn ==
    /\ ck.pc = "credit"
    /\ cc[1].pc \in {"returned", "threw"}
    /\ IF cc[1].pc = "threw"
       THEN /\ result' = Err("processCheckout", cc[1].error)
            /\ ck' = [ck EXCEPT !.pc = "idle"]
       ELSE /\ result' = result
            /\ ck' = [ck EXCEPT !.pc = "record"]
    /\ cc' = [cc EXCEPT ![1].pc = "idle"]
    /\ UNCHANGED <<ledgerVars, stockVars, customers, credit_transactions, rp, cart,
                   currentCustomer, sales, returns, rn, budget>>

\* the methods class FinanceManager defines
FinanceManagerMethods ==
    {"init", "loadAccounts", "loadTransactions", "createAccount",
     "updateDefaultAccount", "transferFunds", "getProfitAndLoss",
     "getBalanceSheet", "getCashFlow", "createBudget", "updateBudgetSpending",
     "getDebtorsSummary", "getCreditorsSummary", "calculateDaysOverdue",
     "calculateTax", "getFinancialMetrics", "exportFinancialData",
     "convertToCSV", "convertToExcel"}

\* await financeManager.recordTransaction({type: 'income', ...}): the argument
\* awaits getPaymentAccount, then the call of the undefined member throws
CheckoutRecordPayment ==
    /\ ck.pc = "record"
    /\ "recordTransaction" \notin FinanceManagerMethods
    /\ result' = Err("processCheckout",
                     "financeManager.recordTransaction is not a function")
    /\ ck' = [ck EXCEPT !.pc = "idle"]
    /\ UNCHANGED <<ledgerVars, stockVars, creditVars, cart, currentCustomer,
                   sales, returns, rn, budget>>

\* returnItems.reduce(...): the recorded price of the sale line with the return
\* line's productId, times the returned quantity; other return lines add nothing
RECURSIVE RefundAmount(_, _)
RefundAmount(saleItems, returnItems) ==
    IF returnItems = <<>> THEN 0
    ELSE LET item == returnItems[1]
             found == \E i \in 1..Len(saleItems) :
                         saleItems[i].productId = item.productId
             saleItem == saleItems[CHOOSE i \in 1..Len(saleItems) :
                            /\ saleItems[i].productId = item.productId
                            /\ \A j \in 1..(i - 1) :
                                  saleItems[j].productId # item.productId]
         IN (IF found THEN saleItem.price * item.quantity ELSE 0)
            + RefundAmount(saleItems, Tail(returnItems))

\* a session calls processReturn(saleId, returnItems)
ProcessReturn ==
    /\ SessionIdle
    /\ budget.pos > 0
    /\ budget' = [budget EXCEPT !.pos = @ - 1]
    /\ \E saleId \in 1..(Len(sales) + 1), items \in ReturnItems :
         rn' = [pc |-> "get", saleId |-> saleId, items |-> items,
                refundAmount |-> 0,
                entry |-> [ntx |-> Len(transactions), nreturns |-> Len(returns),
                           stock |-> [p \in ProductIds |-> products[p].stock]]]
    /\ UNCHANGED <<ledgerVars, stockVars, creditVars, cart, currentCustomer,
                   sales, returns, ck, result>>

\* const sale = await storeManager.getDocument('sales', saleId); the refund amount
ReturnGetSale ==
    /\ rn.pc = "get"
    /\ IF rn.saleId \notin DOMAIN sales
       THEN /\ result' = Err("processReturn", "Sale not found")
            /\ rn' = [rn EXCEPT !.pc = "idle"]
       ELSE IF sales[rn.saleId].items = NotAnArray /\ rn.items # <<>>
       THEN /\ result' = Err("processReturn", "sale.items.find is not a function")
            /\ rn' = [rn EXCEPT !.pc = "idle"]
       ELSE /\ result' = result
            /\ rn' = [rn EXCEPT !.pc = "refund",
                                 !.refundAmount =
                                     RefundAmount(sales[rn.saleId].items.lines, rn.items)]
    /\ UNCHANGED <<ledgerVars, stockVars, creditVars, cart, currentCustomer,
                   sales, returns, ck, budget>>

\* const refund = await financeManager.recordTransaction({type: 'expense', ...}):
\* the argument awaits getPaymentAccount, then the call of the undefined
\* member throws
ReturnRecordRefund ==
    /\ rn.pc = "refund"
    /\ "recordTransaction" \notin FinanceManagerMethods
    /\ result' = Err("processReturn",
                     "financeManager.recordTransaction is not a function")
    /\ rn' = [rn EXCEPT !.pc = "idle"]
    /\ UNCHANGED <<ledgerVars, stockVars, creditVars, cart, currentCustomer,
                   sales, returns, ck, budget>>

\* ------------------------------------------------- recordPurchase (crm)
\* a session calls crmManager.recordPurchase(customerId, purchaseData);
\* const result = await storeManager.addDocument('sales', purchase)
RecordPurchase ==
    /\ SessionIdle
    /\ budget.direct > 0
    /\ budget' = [budget EXCEPT !.direct = @ - 1]
    /\ \E c \in CustomerIds \cup {NoCustomer}, amount \in PurchaseAmounts,
          items \in PurchaseItems :
         /\ sales' = Append(sales, [id |-> Len(sales) + 1, customerId |-> c,
                                    amount |-> amount, items |-> items,
                                    paymentMethod |-> "cash",
                                    status |-> "completed"])
         /\ rp' = [pc |-> "get", customerId |-> c, amount |-> amount,
                   customer |-> Absent, saleId |-> Len(sales) + 1]
    /\ UNCHANGED <<ledgerVars, stockVars, customers, credit_transactions, cc,
                   cart, currentCustomer, returns, ck, rn, result>>

\* updateCustomerPurchaseStats: const customer = await
\* storeManager.getDocument('customers', customerId); if (!customer) return
PurchaseStatsGet ==
    /\ rp.pc = "get"
    /\ IF rp.customerId \notin DOMAIN customers
       THEN /\ rp' = [rp EXCEPT !.pc = "idle"]
            /\ result' = Ok("recordPurchase", rp.saleId)
       ELSE /\ rp' = [rp EXCEPT !.pc = "upd",
                                 !.customer = customers[rp.customerId]]
            /\ result' = result
    /\ UNCHANGED <<ledgerVars, stockVars, customers, credit_transactions, cc,
                   posVars, budget>>

\* await storeManager.updateDocument('customers', customerId, updates); return result
PurchaseStatsWrite ==
    /\ rp.pc = "upd"
    /\ customers' = [customers EXCEPT
                       ![rp.customerId].totalPurchases = rp.customer.totalPurchases + 1,
                       ![rp.customerId].totalSpent = rp.customer.totalSpent + rp.amount,
                       ![rp.customerId].creditUsed = rp.customer.outstandingBalance]
    /\ rp' = [rp EXCEPT !.pc = "idle"]
    /\ result' = Ok("recordPurchase", rp.saleId)
    /\ UNCHANGED <<ledgerVars, stockVars, credit_transactions, cc, posVars, budget>>

\* the balance of account a after recordTransaction applied the requests
RECURSIVE BalanceAfter(_, _, _)
BalanceAfter(balance, a, requests) ==
    IF requests = <<>> THEN balance
    ELSE LET d == requests[1]
             first == IF BalanceTarget(d, 1) = a
                      THEN BalanceChange(d.type, 1, d.amount) ELSE 0
             second == IF d.type = "transfer" /\ BalanceTarget(d, 2) = a
                       THEN BalanceChange(d.type, 2, d.amount) ELSE 0
         IN BalanceAfter(balance + first + second, a, Tail(requests))

\* the records recordTransaction creates for the requests given, in order
StoredTransactions(requests) ==
    [i \in 1..Len(requests) |-> NewTransaction(requests[i], i)]

\* the requests of the records a report is computed over
ReportRequests ==
    { d \in [type : TxTypes, amount : ReportAmounts, accountId : {"a1"},
             toAccountId : {"a2", Absent}, category : ReportCategories] :
        d.type = "transfer" <=> d.toAccountId = "a2" }

\* a store whose transactions collection holds up to MaxReportTx records, the
\* balances being the opening balances plus the recorded movements
InitReport ==
    /\ \E requests \in UNION {[1..n -> ReportRequests] : n \in 0..MaxReportTx} :
         /\ transactions = StoredTransactions(requests)
         /\ opening = [a \in AccountIds |-> 2]
         /\ accounts = [a \in AccountIds |-> BalanceAfter(2, a, requests)]
         /\ audit_logs = [i \in 1..Len(requests) |->
                            [entity |-> "transaction", entityId |-> i,
                             action |-> "create"]]
         /\ snapshot = [accounts |-> accounts, ntx |-> Len(requests)]
    /\ finAccounts = [a \in {} |-> 0]
    /\ finTransactions = <<>>
    /\ rt = IdleRt
    /\ StockStart([p \in ProductIds |-> 2])
    /\ CreditStart(0, 0)
    /\ PosStart(<<>>, NoneAttached)
    /\ result = Ok("init", 0)
    /\ budget = [direct |-> 0, pos |-> 0]

\* ----------------------------------------------------------- specifications
NextLedger ==
    \/ RecordTransaction
    \/ UpdateAccountBalanceGet
    \/ UpdateAccountBalanceWrite
    \/ AddTransaction
    \/ AuditLog
    \/ LoadAccounts
    \/ TransferFunds

SpecLedger == InitLedger /\ [][NextLedger]_vars

\* a finance page that loads the accounts and only calls transferFunds, one
\* call at a time
NextTransfer ==
    \/ LoadAccounts
    \/ TransferFunds
    \/ UpdateAccountBalanceGet
    \/ UpdateAccountBalanceWrite
    \/ AddTransaction
    \/ AuditLog

SpecTransfer == InitLedger /\ [][NextTransfer]_vars

\* the ledger operations against a store that may reject the write of the
\* transaction record or of the audit entry
NextAudit ==
    \/ NextLedger
    \/ AddTransactionFails
    \/ AuditLogFails

SpecAudit == InitLedger /\ [][NextAudit]_vars

\* the profit-and-loss report over the records in the store
NextReport ==
    \/ GetProfitAndLoss

SpecReport == InitReport /\ [][NextReport]_vars

\* one session calling updateStock, one call at a time
NextStock ==
    \/ UpdateStock(1)
    \/ UpdateStockGet(1)
    \/ UpdateStockWrite(1)
    \/ UpdateStockLog(1)

SpecStock == InitStock /\ [][NextStock]_vars

\* two sessions calling updateStock; their store calls interleave
NextStockConcurrent ==
    \E s \in Sessions :
        \/ UpdateStock(s)
        \/ UpdateStockGet(s)
        \/ UpdateStockWrite(s)
        \/ UpdateStockLog(s)

SpecStockConcurrent == InitStock /\ [][NextStockConcurrent]_vars

\* one session calling updateCustomerCredit, one call at a time
NextCredit ==
    \/ UpdateCustomerCredit(1)
    \/ UpdateCustomerCreditGet(1)
    \/ UpdateCustomerCreditWrite(1)
    \/ UpdateCustomerCreditLog(1)

SpecCredit == InitCredit /\ [][NextCredit]_vars

\* two sessions calling updateCustomerCredit against the same store
NextCreditConcurrent ==
    \E s \in Sessions :
       \/ UpdateCustomerCredit(s)
       \/ UpdateCustomerCreditGet(s)
       \/ UpdateCustomerCreditWrite(s)
       \/ UpdateCustomerCreditLog(s)

SpecCreditConcurrent == InitCredit /\ [][NextCreditConcurrent]_vars

\* the steps of processCheckout
NextCheckout ==
    \/ ProcessCheckout
    \/ CheckoutCreditCheck
    \/ CheckoutPayment
    \/ CheckoutCreditReturn
    \/ CheckoutRecordPayment
    \/ UpdateCustomerCreditGet(1)
    \/ UpdateCustomerCreditWrite(1)
    \/ UpdateCustomerCreditLog(1)

\* one session at the POS terminal
NextPos ==
    \/ SetCustomer
    \/ AddToCart
    \/ RemoveFromCart
    \/ UpdateQuantity
    \/ NextCheckout

SpecPos == InitPos /\ [][NextPos]_vars

\* one session at the POS terminal that builds its cart by addToCart alone
NextCart ==
    \/ SetCustomer
    \/ AddToCart

SpecCart == InitPos /\ [][NextCart]_vars

\* one session at the POS terminal whose UI handlers also run while a checkout
\* is suspended
NextPosInterleaved ==
    \/ NextPos
    \/ AddToCartSuspended
    \/ RemoveFromCartSuspended
    \/ UpdateQuantitySuspended

SpecPosInterleaved == InitPos /\ [][NextPosInterleaved]_vars

\* one session recording purchases through the CRM and processing returns
NextReturn ==
    \/ RecordPurchase
    \/ PurchaseStatsGet
    \/ PurchaseStatsWrite
    \/ ProcessReturn
    \/ ReturnGetSale
    \/ ReturnRecordRefund

SpecReturn == InitReturn /\ [][NextReturn]_vars

\* one session that checks out at the POS terminal and uses the finance
\* operations
NextAll ==
    \/ NextCheckout
    \/ NextLedger

SpecAll == InitAll /\ [][NextAll]_vars

\* ------------------------------------------------------------- properties
\* the signed movement a transaction record makes on an account
Movement(t, a) ==
    (IF t.type = "income" /\ t.accountId = a THEN t.amount ELSE 0)
    - (IF t.type = "expense" /\ t.accountId = a THEN t.amount ELSE 0)
    - (IF t.type = "transfer" /\ t.accountId = a THEN t.amount ELSE 0)
    + (IF t.type = "transfer" /\ t.toAccountId = a THEN t.amount ELSE 0)

RECURSIVE LedgerSum(_, _)
LedgerSum(a, txs) ==
    IF txs = <<>> THEN 0 ELSE Movement(txs[1], a) + LedgerSum(a, Tail(txs))

RECURSIVE SumBalances(_, _)
SumBalances(bal, ids) ==
    IF ids = {} THEN 0
    ELSE LET a == CHOOSE x \in ids : TRUE
         IN bal[a] + SumBalances(bal, ids \ {a})

LastTransaction == transactions[Len(transactions)]

\* C1: whenever no recordTransaction call is running, every account's balance
\* is its opening balance plus the incomes and incoming transfers recorded for
\* it minus the expenses and outgoing transfers recorded for it.
C1_BalanceIsOpeningPlusMovements ==
    rt.pc = "idle" =>
        \A a \in AccountIds :
            accounts[a] = opening[a] + LedgerSum(a, transactions)

C6_BalanceWrittenBeforeRecord ==
    Len(transactions) > snapshot.ntx =>
        \A a \in AccountIds :
            accounts[a] = snapshot.accounts[a] + Movement(LastTransaction, a)

C6_Witness ==
    /\ rt.pc = "audit"
    /\ rt.data.type = "transfer"
    /\ rt.data.accountId # rt.data.toAccountId
    /\ Len(transactions) > snapshot.ntx

\* what the contract of recordTransaction asks of a request
ValidRequest(d) ==
    /\ d.amount > 0
    /\ d.type # Absent
    /\ d.accountId # Absent
    /\ d.category # Absent
    /\ d.type = "transfer" => d.toAccountId # Absent

\* C7: a request with an amount <= 0, a missing required field or (transfer) a
\* missing toAccountId never gets past validation, and a rejected request
\* changes no balance and creates no record.
C7_InvalidRequestRejected ==
    /\ rt.pc # "idle" => ValidRequest(rt.data)
    /\ ( /\ rt.pc = "idle"
         /\ result.error \in {"Missing required field",
                              "Transfer requires toAccountId"} )
       => /\ accounts = snapshot.accounts
          /\ Len(transactions) = snapshot.ntx

\* the request names an account that does not exist
Unresolved(d) ==
    \/ d.accountId \notin AccountIds
    \/ d.type = "transfer" /\ d.toAccountId \notin AccountIds

C2_StockIsInitialPlusSucceeded ==
    [][ /\ \A p \in ProductIds : products'[p].stock >= 0
        /\ us'[1].pc = "idle" =>
              \A p \in ProductIds :
                  products'[p].stock = initialStock[p] + succeededChange'[p]
        /\ ( /\ us[1].pc = "get"
             /\ us[1].productId \in ProductIds
             /\ products[us[1].productId].stock + us[1].quantityChange < 0 )
           => /\ result' = Err("updateStock", "Insufficient stock")
              /\ us'[1].pc = "idle"
              /\ products' = products
      ]_vars

C2_Witness ==
    /\ us[1].pc = "idle"
    /\ result = Err("updateStock", "Insufficient stock")
    /\ \E p \in ProductIds : succeededChange[p] < 0

\* C3: a successful updateStock call appends exactly one inventory log entry,
\* whose previousStock is the stock before the call, whose newStock is the
\* stock after it and whose difference is the quantityChange; a failed call,
\* and every other step, appends none.
C3_OneLogPerSuccessfulCall ==
    [][ LET returns_ok == us[1].pc # "idle" /\ us'[1].pc = "idle"
                          /\ result'.status = "ok"
            p == us[1].productId
            entry == inventory_logs'[Len(inventory_logs')]
        IN /\ returns_ok =>
                /\ inventory_logs' = Append(inventory_logs, entry)
                /\ entry.productId = p
                /\ entry.quantityChange = us[1].quantityChange
                /\ entry.previousStock = initialStock[p] + succeededChange[p]
                /\ entry.newStock = products'[p].stock
                /\ entry.newStock - entry.previousStock = entry.quantityChange
           /\ ~returns_ok => inventory_logs' = inventory_logs
      ]_vars

C3_Witness ==
    /\ us[1].pc = "idle"
    /\ result.op = "updateStock"
    /\ result.status = "ok"
    /\ Len(inventory_logs) = 2
    /\ inventory_logs[2].quantityChange < 0

\* C5: the persisted outstandingBalance is never below 0 and never above a
\* positive creditLimit, and an increase for a customer whose creditLimit is 0
\* succeeds.
C5_OutstandingWithinBounds ==
    /\ \A c \in CustomerIds :
          /\ customers[c].outstandingBalance >= 0
          /\ customers[c].creditLimit > 0 =>
                customers[c].outstandingBalance <= customers[c].creditLimit
    /\ ( /\ cc[1].pc = "idle"
         /\ cc[1].customerId \in CustomerIds
         /\ customers[cc[1].customerId].creditLimit = 0
         /\ cc[1].type = "increase" )
       => result.status = "ok"

\* the cart summary the contract asks for: every line's tax is the exclusive
\* tax on the line's current total
SummaryOfLines(lines) ==
    LET RECURSIVE Tax(_)
        Tax(ls) == IF ls = <<>> THEN 0
                   ELSE calculateTax(ls[1].price * ls[1].quantity, TaxRate)
                        + Tax(Tail(ls))
        RECURSIVE Sub(_)
        Sub(ls) == IF ls = <<>> THEN 0
                   ELSE ls[1].price * ls[1].quantity + Sub(Tail(ls))
    IN [subtotal |-> Sub(lines), tax |-> Tax(lines),
        total |-> Sub(lines) + Tax(lines)]

\* C11: after any sequence of addToCart, removeFromCart and updateQuantity
\* calls the summary has subtotal = sum of price x quantity, tax = sum of the
\* exclusive tax on each line's current total, total = subtotal + tax; one
\* line of price 10.00 and quantity 2 at 16% gives 20.00, 3.20 and 23.20.
C11_SummaryFollowsCart ==
    /\ updateCartSummary(cart) = SummaryOfLines(cart)
    /\ updateCartSummary(CartWith(<<>>, "p1", 1000, 2))
         = [subtotal |-> 2000, tax |-> 320, total |-> 2320]

\* C12: when the payment step of a checkout ends, exactly one income
\* transaction of the cart total has been recorded; with Cash, Card or Mobile
\* Money no customer's outstandingBalance has changed, with Credit the attached
\* customer's outstandingBalance has grown by the cart total.
C12_PaymentRecordsOneIncome ==
    [][ (ck.pc = "record" /\ ck'.pc # "record")
        => /\ Len(transactions') = ck.entry.ntx + 1
           /\ transactions'[Len(transactions')].type = "income"
           /\ transactions'[Len(transactions')].amount = ck.total
           /\ ck.method \in {"Cash", "Card", "Mobile Money"}
                => \A c \in CustomerIds :
                      customers'[c].outstandingBalance
                        = ck.entry.customers[c].outstandingBalance
           /\ ck.method = "Credit"
                => customers'[currentCustomer].outstandingBalance
                     = ck.entry.customers[currentCustomer].outstandingBalance
                       + ck.total
      ]_vars

\* the running checkout has a payment method processPayment handles, and for
\* Credit an attached customer whose credit covers the total
Payable ==
    \/ ck.method \in {"Cash", "Card", "Mobile Money"}
    \/ /\ ck.method = "Credit"
       /\ currentCustomer \in CustomerIds
       /\ LET c == ck.entry.customers[currentCustomer] IN
            /\ ck.total <= c.creditLimit - c.creditUsed
            /\ c.outstandingBalance + ck.total <= c.creditLimit

\* the stock found at the entry of the checkout covers every cart line
StockCovers(lines) ==
    \A i \in 1..Len(lines) : lines[i].quantity <= ck.entry.stock[lines[i].productId]

\* a checkout that lacks nothing: cart, payment method and stock
CheckoutCanSucceed ==
    /\ cart # <<>>
    /\ Payable
    /\ StockCovers(cart)

C14_CheckoutSucceeds ==
    [][ (ck.pc # "idle" /\ ck'.pc = "idle" /\ CheckoutCanSucceed)
        => /\ result'.op = "processCheckout"
           /\ result'.status = "ok"
           /\ Len(sales') = ck.entry.nsales + 1
           /\ Len(transactions') = ck.entry.ntx + 1
           /\ cart' = <<>>
      ]_vars

\* the first cart line the stock at the entry of the checkout does not cover
FirstShort(lines) ==
    CHOOSE i \in 1..Len(lines) :
        /\ lines[i].quantity > ck.entry.stock[lines[i].productId]
        /\ \A j \in 1..(i - 1) :
              lines[j].quantity <= ck.entry.stock[lines[j].productId]

RECURSIVE QuantityOf(_, _)
QuantityOf(lines, p) ==
    IF lines = <<>> THEN 0
    ELSE (IF lines[1].productId = p THEN lines[1].quantity ELSE 0)
         + QuantityOf(Tail(lines), p)

\* the running processReturn call found its sale, with the lines sold
ReturnOfKnownSale ==
    /\ rn.saleId \in DOMAIN sales
    /\ sales[rn.saleId].items.isArray

\* C18: processReturn for an unknown saleId fails with 'Sale not found' and
\* writes nothing; for an existing sale it ends with exactly one expense
\* transaction of the refund amount (recorded price times returned quantity of
\* the return lines found in the sale), the stock of every returned product
\* raised by the returned quantity, and one Return record whose refundId is
\* the id of that transaction, the Return record being written last.
C18_ReturnRefundsAndRestocks ==
    [][ /\ (rn.pc = "get" /\ rn.saleId \notin DOMAIN sales)
           => /\ result' = Err("processReturn", "Sale not found")
              /\ rn'.pc = "idle"
              /\ UNCHANGED <<accounts, transactions, products, inventory_logs,
                             sales, returns>>
        /\ (rn.pc # "idle" /\ rn'.pc = "idle" /\ ReturnOfKnownSale /\ rn.items # <<>>)
           => /\ result'.status = "ok"
              /\ Len(transactions') = rn.entry.ntx + 1
              /\ transactions'[Len(transactions')].type = "expense"
              /\ transactions'[Len(transactions')].amount
                   = RefundAmount(sales[rn.saleId].items.lines, rn.items)
              /\ \A p \in ProductIds :
                    products'[p].stock = rn.entry.stock[p] + QuantityOf(rn.items, p)
              /\ Len(returns') = rn.entry.nreturns + 1
              /\ returns'[Len(returns')].refundId
                   = transactions'[Len(transactions')].id
        /\ Len(returns') > Len(returns)
           => Len(transactions') = rn.entry.ntx + 1 /\ products' = products
      ]_vars

\* the running processReturn call returns more of a product than its sale sold
ReturnsMoreThanSold ==
    /\ ReturnOfKnownSale
    /\ \E p \in ProductIds :
          QuantityOf(rn.items, p) > QuantityOf(sales[rn.saleId].items.lines, p)
                                      /\ QuantityOf(sales[rn.saleId].items.lines, p) > 0

\* C19: a return of more than the quantity sold succeeds and refunds the
\* recorded price times the returned quantity, and a return succeeds whatever
\* returns of the same sale were processed before: every run adds its own
\* refund expense and its own restock.
C19_ReturnIsNotGuarded ==
    [][ /\ (rn.pc # "idle" /\ rn'.pc = "idle" /\ ReturnsMoreThanSold)
           => /\ result'.op = "processReturn" /\ result'.status = "ok"
              /\ transactions'[Len(transactions')].amount
                   = RefundAmount(sales[rn.saleId].items.lines, rn.items)
        /\ ( /\ rn.pc # "idle" /\ rn'.pc = "idle" /\ ReturnOfKnownSale
             /\ RefundAmount(sales[rn.saleId].items.lines, rn.items) > 0 )
           => /\ Len(transactions') = rn.entry.ntx + 1
              /\ \A p \in ProductIds :
                    products'[p].stock = rn.entry.stock[p] + QuantityOf(rn.items, p)
      ]_vars

\* C20: a recordTransaction call that has created its transaction record
\* returns that record, also when the audit write failed.
C20_AuditFailureDoesNotAbort ==
    (rt.pc = "idle" /\ Len(transactions) > snapshot.ntx)
    => result = Ok(rt.caller, LastTransaction.id)

\* the sum of the amounts of the records of a kind: the incomes, the expenses,
\* or the records of category 'Cost of Goods'
Counts(t, kind) ==
    \/ kind = "income" /\ t.type = "income"
    \/ kind = "expense" /\ t.type = "expense"
    \/ kind = "Cost of Goods" /\ t.category = "Cost of Goods" /\ t.type # "transfer"

RECURSIVE SumAmounts(_, _)
SumAmounts(txs, kind) ==
    IF txs = <<>> THEN 0
    ELSE (IF Counts(txs[1], kind) THEN txs[1].amount ELSE 0)
         + SumAmounts(Tail(txs), kind)

\* C21: the report over the records in the store has grossProfit = sum of the
\* income amounts - sum of the amounts of the records of category 'Cost of
\* Goods', and netProfit = grossProfit - sum of the expense amounts; transfers
\* count for neither.
C21_ProfitAndLoss ==
    result.op = "getProfitAndLoss"
    => LET gross == SumAmounts(transactions, "income")
                    - SumAmounts(transactions, "Cost of Goods")
       IN /\ result.value.grossProfit = gross
          /\ result.value.netProfit = gross - SumAmounts(transactions, "expense")

\* the latest updateStock calls of the two sessions both read the stock before
\* either wrote it, and both have returned, on the same product and from the
\* same stock read, their log entries being the last two of the log
BothReadBeforeEitherWrote ==
    /\ us[1].pc = "idle" /\ us[2].pc = "idle"
    /\ us[1].raced /\ us[2].raced
    /\ us[1].productId \in ProductIds
    /\ us[1].productId = us[2].productId
    /\ us[1].previousStock = us[2].previousStock
    /\ Len(inventory_logs) >= 2
    /\ LET n == Len(inventory_logs) IN
         \/ /\ inventory_logs[n - 1] = InventoryLogEntry(us[1])
            /\ inventory_logs[n] = InventoryLogEntry(us[2])
         \/ /\ inventory_logs[n - 1] = InventoryLogEntry(us[2])
            /\ inventory_logs[n] = InventoryLogEntry(us[1])

C27_StockNeverNegativeConcurrent ==
    \A p \in ProductIds : products[p].stock >= 0

C27_Witness ==
    /\ BothReadBeforeEitherWrote
    /\ us[1].quantityChange < 0 /\ us[2].quantityChange < 0
    /\ us[1].previousStock + us[1].quantityChange + us[2].quantityChange < 0
    /\ products[us[1].productId].stock = 0

\* C23: a recordTransaction call that has ended in an error has left every
\* account balance as it found it.
C23_FailedCallLeavesBalances ==
    (rt.pc = "idle" /\ result.status = "error"
       /\ result.op \in {"recordTransaction", "transferFunds"})
    => accounts = snapshot.accounts

C25_TransfersKeepBalances ==
    /\ \A a \in AccountIds : accounts[a] >= 0
    /\ (rt.pc # "idle" /\ rt.caller = "transferFunds")
       => rt.data.amount <= snapshot.accounts[rt.data.accountId]

\* the credit_transactions entries of customer c, in the order appended
CreditEntriesOf(c) ==
    SelectSeq(credit_transactions, LAMBDA e : e.customerId = c)

\* C26: under every interleaving of the updateCustomerCredit calls of two
\* sessions, the persisted outstandingBalance of a customer with a positive
\* creditLimit never exceeds the limit, and once every call has finished it
\* equals the newBalance of the customer's most recently appended
\* credit_transactions entry.
C26_CreditConsistentConcurrent ==
    \A c \in CustomerIds :
       customers[c].creditLimit > 0
       => /\ customers[c].outstandingBalance <= customers[c].creditLimit
          /\ ((\A s \in Sessions : cc[s].pc = "idle") /\ CreditEntriesOf(c) # <<>>)
             => customers[c].outstandingBalance
                  = CreditEntriesOf(c)[Len(CreditEntriesOf(c))].newBalance

\* C28: in a cart built by addToCart calls alone, with no other session
\* changing the stock, the quantity of every cart line is at most the stored
\* stock of its product (so that updateStock would not refuse the line).
C28_CartWithinStock ==
    \A i \in 1..Len(cart) :
       /\ cart[i].quantity <= products[cart[i].productId].stock
       /\ ~InsufficientStock(products[cart[i].productId].stock - cart[i].quantity)

\* C29: the credit pre-check of a checkout lets the checkout pass exactly when
\* updateCustomerCredit(customer, total, 'increase') would succeed on the
\* customer as stored (so a customer with creditLimit 0 is never refused), and
\* the updateCustomerCredit call of the payment step never throws for a
\* checkout that has passed the pre-check.
C29_SameCreditPolicy ==
    [][ /\ (ck.pc = "creditcheck" /\ ck'.pc # "creditcheck")
           => LET c == customers[currentCustomer] IN
              (ck'.pc = "payment")
                <=> ~CreditLimitExceeded(
                        NewBalance(c.outstandingBalance, ck.total, "increase"),
                        c.creditLimit)
        /\ ck.pc = "credit" => cc'[1].pc # "threw"
      ]_vars

\* C30: the switch of processPayment lets every method of
\* POSManager.paymentMethods through, and ends the checkout with the
\* unsupported-payment-method error for every other method, before anything
\* is written.
C30_AdvertisedMethodsAccepted ==
    [][ (ck.pc = "payment" /\ ck'.pc # "payment")
        => LET unsupported ==
                  /\ ck'.pc = "idle"
                  /\ result' = Err("processCheckout", "Unsupported payment method")
           IN /\ ck.method \in PaymentMethods => ~unsupported
              /\ ck.method \notin PaymentMethods
                 => /\ unsupported
                    /\ UNCHANGED <<customers, credit_transactions, accounts,
                                   transactions, sales, products, inventory_logs>>
      ]_vars

\* C10: a Credit checkout for an attached customer whose creditLimit minus
\* creditUsed is less than the cart total ends at the credit check with
\* 'Credit limit exceeded', and neither that step nor the steps before it
\* write anything: customers, accounts, transactions, sales, stock and cart
\* stay as they are.
C10_CreditCheckBeforeAnyWrite ==
    [][ /\ ( /\ ck.pc = "creditcheck"
             /\ customers[currentCustomer].creditLimit
                  - customers[currentCustomer].creditUsed < ck.total )
           => /\ result' = Err("processCheckout", "Credit limit exceeded")
              /\ ck'.pc = "idle"
        /\ (ck.pc = "creditcheck" \/ ck'.pc = "creditcheck")
           => UNCHANGED <<customers, credit_transactions, accounts,
                          transactions, sales, products, inventory_logs, cart>>
      ]_vars

C10_Witness ==
    /\ ck.pc = "idle"
    /\ ck.method = "Credit"
    /\ currentCustomer \in CustomerIds
    /\ customers[currentCustomer].creditUsed > 0
    /\ customers[currentCustomer].creditLimit
         - customers[currentCustomer].creditUsed < ck.total
    /\ result = Err("processCheckout", "Credit limit exceeded")
    /\ credit_transactions = <<>>

====
